---- MODULE Spec2Model ----
(***************************************************************************)
(* Quote store of the "Dynamic Quote Generator" page, latest version       *)
(* (src/unnamed/part_002): in-memory `quotes`, the localStorage copy, the  *)
(* two category <select> widgets, the notification box, and the async      *)
(* callbacks addQuote / syncWithServer / importFromJsonFile.               *)
(* JavaScript is single threaded: every action below is one callback run   *)
(* to the point where it waits for the network (or to its end).  The two    *)
(* awaits of one request (`fetch`, then `res.json()`) are one wait: the     *)
(* code between them reads and writes nothing.                              *)
(***************************************************************************)
EXTENDS Integers, Sequences, FiniteSets, TLC

VARIABLES phase, quotes, lsQuotes, lsSelected, filterOptions, filterValue,
          quoteDisplay, notification, syncs, adds, last, overlap, race

vars == <<phase, quotes, lsQuotes, lsSelected, filterOptions, filterValue,
          quoteDisplay, notification, syncs, adds, last, overlap, race>>

(* ------------------------------ bounds -------------------------------- *)
MaxStore == 4
MaxRuns == 2
MaxAdds == 1

AddSlots == 1..MaxAdds

(* ------------------------- JavaScript values -------------------------- *)
Undefined == "<undefined>"
NonString == "<number>"
NullItem == "<null>"

Truthy(v) == v \notin {Undefined, ""}

Quote(t, c) == [text |-> t, category |-> c]

trim(s) ==
  CASE s = " Test quote " -> "Test quote"
    [] s = " " -> ""
    [] OTHER -> s

toLowerCase(s) ==
  CASE s = "Test" -> "test"
    [] s = "Test quote" -> "test quote"
    [] OTHER -> s

(* code-unit order of the lower-cased category strings of the model *)
CodeUnitOrder == <<"inspiration", "motivation", "server", "success", "test">>

(* ------------------------------ the seed ------------------------------ *)
SeedQuotes ==
  << Quote("The best way to predict the future is to invent it.", "inspiration"),
     Quote("Do not be afraid to give up the good to go for the great.", "motivation"),
     Quote("Success usually comes to those who are too busy to be looking for it.", "success") >>

(* ------------------------- localStorage items ------------------------- *)
NoItem == [kind |-> "null", val |-> <<>>]
ArrayItem(qs) == [kind |-> "array", val |-> qs]

(* an item whose text is no JSON, and one whose JSON is an object *)
CorruptItem == [kind |-> "unparsable", val |-> <<>>]
ObjectItem == [kind |-> "object", val |-> <<>>]

(* JSON.parse(localStorage.getItem("quotes")) || dflt, for an item that is *)
(* absent or holds an array (all that the page itself ever writes)         *)
ParseOr(item, dflt) == IF item.kind = "array" THEN item.val ELSE dflt

(* line 4: JSON.parse throws a SyntaxError for text that is no JSON and    *)
(* the binding stays uninitialised; a parsed object is truthy and becomes  *)
(* the value of `quotes`; null gives way to the seed.  The list written    *)
(* here is the list `quotes` holds, <<>> standing in where it holds none   *)
(* (see HoldsList)                                                         *)
loadQuotes(item) ==
  IF item.kind \in {"unparsable", "object"} THEN <<>>
  ELSE ParseOr(item, SeedQuotes)

StoredQuotes ==
  { NoItem,
    CorruptItem,
    ObjectItem,
    ArrayItem(<<>>),
    ArrayItem(<<Quote("Test quote", "test")>>),
    ArrayItem(<<Quote("Test quote", "test"), Quote("Test quote", "test")>>) }

StoredSelected == {NullItem, "test", "gone"}

(* ----------------------------- inputs --------------------------------- *)
TextInputs == {"", " Test quote "}
CategoryInputs == {" ", "Test"}

Post(t) == [kind |-> "object", title |-> t]
NullPost == [kind |-> "null", title |-> Undefined]

Bodies ==
  { [kind |-> "unparsable", posts |-> <<>>],
    [kind |-> "object", posts |-> <<>>],
    [kind |-> "list", posts |-> <<>>],
    [kind |-> "list", posts |-> <<Post("Test quote")>>],
    [kind |-> "list", posts |-> <<Post("qui est esse"), Post("qui est esse")>>],
    [kind |-> "list", posts |-> <<Post(Undefined), Post("Test quote")>>],
    [kind |-> "list", posts |-> <<Post("qui est esse"), NullPost>>],
    [kind |-> "list", posts |-> <<Post("qui est esse"), Post("qui est esse"),
                                   Post("qui est esse"), Post("qui est esse"),
                                   Post("qui est esse"), Post("Test quote")>>] }

Elem(t, c) == [kind |-> "object", text |-> t, category |-> c]
NullElem == [kind |-> "null", text |-> Undefined, category |-> Undefined]

Files ==
  { [kind |-> "unparsable", elems |-> <<>>],
    [kind |-> "object", elems |-> <<>>],
    [kind |-> "array", elems |-> <<Elem(Undefined, Undefined), Elem("Test quote", "Test")>>],
    [kind |-> "array", elems |-> <<Elem("Test quote", "test"), Elem("Test quote", "test"), Elem(Undefined, Undefined)>>],
    [kind |-> "array", elems |-> <<Elem("Test quote", "test"), NullElem>>],
    [kind |-> "array", elems |-> <<Elem("Test quote", NonString)>>] }

(* --------------------------- pure helpers ----------------------------- *)
Range(s) == {s[i] : i \in 1..Len(s)}

(* saveQuotes: localStorage.setItem("quotes", JSON.stringify(quotes)) *)
saveQuotes(qs) == ArrayItem(qs)

(* populateCategories: the option values written into both selects *)
populateCategories(qs) ==
  LET categories == {toLowerCase(qs[i].category) : i \in 1..Len(qs)}
  IN <<"all">> \o SelectSeq(CodeUnitOrder, LAMBDA c : c \in categories)

(* a filter without the "all" case *)
byCategory_noAll(qs, selected) == SelectSeq(qs, LAMBDA q : q.category = selected)

(* the filter expression shared by filterQuotes and displayRandomQuote *)
byCategory(qs, selected) ==
  IF selected = "all" THEN qs
  ELSE SelectSeq(qs, LAMBDA q : q.category = selected)

(* filterQuotes: what it writes to quoteDisplay *)
filterQuotes(qs, selected) ==
  LET filtered == byCategory(qs, selected)
  IN IF Len(filtered) = 0
       THEN [mode |-> "empty", items |-> <<>>]
       ELSE [mode |-> "list", items |-> filtered]

(* showNotification: the text left in the notification box *)
Note(msg) == [msg |-> msg, n |-> 0]
NoteN(msg, n) == [msg |-> msg, n |-> n]

(* ghost: the callback that ran last, with the inputs it was given *)
(* (a timer tick leaves the record of a finished sync run in place; again: *)
(* the run before this sync run fetched the same list and no other         *)
(* callback ran in between)                                                *)
NoLast ==
  [op |-> "none", text |-> "", category |-> "", cands |-> <<>>, ok |-> FALSE,
   again |-> FALSE]

Did(op, t, c, cands, ok) ==
  [op |-> op, text |-> t, category |-> c, cands |-> cands, ok |-> ok,
   again |-> op = "syncDone" /\ last.op = "syncDone" /\ last.cands = cands]

(* `syncs` counts the syncWithServer invocations suspended inside          *)
(* fetchQuotesFromServer (lines 70 and 74); a suspended run holds no data  *)
(* yet, and nothing is read or written between its two awaits              *)
NoSyncs == 0
IdleAdd == [pc |-> "idle", quote |-> Quote("", ""), text |-> "", category |-> ""]

NoOverlap ==
  [active |-> FALSE, done |-> 0, hadTwice |-> FALSE, baseLen |-> 0,
   seqQuotes |-> <<>>, seqLs |-> NoItem]

(* ghost: the window that opens when an add and a sync run are suspended   *)
(* together and closes when an add and a sync run have both finished;      *)
(* owed: the quotes `quotes` held when it opened, and the quotes put into  *)
(* the store by what has finished inside it; first: what finished first.   *)
(* The window is recorded in SpecRace only (mode "off" in Spec).           *)
NoRace == [mode |-> "off", first |-> "none", owed |-> {}]
RaceIdle == [mode |-> "idle", first |-> "none", owed |-> {}]

(* ------------------------------- Init ---------------------------------- *)
(* state after the top-level script has run (line 4 and the listeners), or  *)
(* after it has stopped at line 4 with nothing registered ("crashed")       *)
Start ==
  /\ lsQuotes \in StoredQuotes
  /\ phase = IF lsQuotes.kind = "unparsable" THEN "crashed" ELSE "loaded"
  /\ quotes = loadQuotes(lsQuotes)
  /\ lsSelected \in StoredSelected
  /\ filterOptions = <<>>
  /\ filterValue = ""
  /\ quoteDisplay = [mode |-> "blank", items |-> <<>>]
  /\ notification = Note("none")
  /\ syncs = NoSyncs
  /\ adds = [a \in AddSlots |-> IdleAdd]
  /\ last = NoLast
  /\ overlap = NoOverlap

Init == Start /\ race = NoRace

(* the same start, with the window of an add raced by a sync run recorded *)
InitRace == Start /\ race = RaceIdle

(* `quotes` holds a list: line 4 gave it one (storage is untouched until   *)
(* the page is ready, and from then on `quotes` is only ever a list)        *)
HoldsList ==
  \/ phase = "ready"
  \/ phase = "loaded" /\ lsQuotes.kind \in {"null", "array"}

(* --------------------------- DOM helpers ------------------------------- *)
(* displayRandomQuote: the quote it may show for the chosen index          *)
RandomChoices(qs, selected) ==
  LET filteredQuotes == byCategory(qs, selected)
  IN IF Len(filteredQuotes) = 0
       THEN {[mode |-> "none", items |-> <<>>]}
       ELSE {[mode |-> "random", items |-> <<filteredQuotes[i]>>] :
               i \in 1..Len(filteredQuotes)}

(* a restore that sets the saved value without looking at the options *)
restoreFilter_asSaved(item, options) ==
  IF item \in {NullItem, ""} THEN "all" ELSE item

(* restoreFilter: the value of the filter select after lines 348-352;      *)
(* populateCategories has just rebuilt the options, so the value is "all"  *)
restoreFilter(item, options) ==
  LET savedCategory == IF item \in {NullItem, ""} THEN "all" ELSE item
  IN IF savedCategory \in Range(options) THEN savedCategory ELSE "all"

InFlight == syncs

(* some quote occurs twice by the dedup key (text, category) *)
Twice(qs) == \E i, j \in 1..Len(qs) : i < j /\ qs[i] = qs[j]

(* ghost: the window in which two sync runs are in flight together, and the *)
(* store a one-after-the-other execution of the finished runs would hold    *)
OverlapOnStart ==
  IF InFlight = 0 THEN NoOverlap
  ELSE IF overlap.active THEN overlap
  ELSE [active |-> TRUE, done |-> 0,
        hadTwice |-> Twice(quotes) \/ Twice(ParseOr(lsQuotes, <<>>)),
        baseLen |-> Len(ParseOr(lsQuotes, <<>>)),
        seqQuotes |-> quotes, seqLs |-> lsQuotes]

RaceOnStart ==
  IF race.mode # "idle" THEN race
  ELSE [mode |-> "open", first |-> "none", owed |-> {quotes[i] : i \in 1..Len(quotes)}]

RaceOnFinish(op, gained) ==
  IF race.mode # "open" THEN race
  ELSE IF race.first \notin {"none", op} THEN RaceIdle
  ELSE [race EXCEPT !.first = op, !.owed = @ \cup gained]

(* ----------------------- DOMContentLoaded handler ---------------------- *)
(* with `quotes` no list, populateCategories throws at line 40              *)
(* (quotes.map is not a function) and the rest of the handler never runs:   *)
(* no options, no filter, no sync, no timer ("broken").  The click handlers *)
(* of lines 357-360 stay registered; with no list each of them throws       *)
(* before it writes to `quotes` or to storage, so the store of a broken     *)
(* page never changes again.                                                *)
DOMContentLoaded ==
  /\ phase = "loaded"
  /\ last' = Did("load", lsSelected, "", <<>>, FALSE)
  /\ IF ~HoldsList
       THEN /\ phase' = "broken"
            /\ UNCHANGED <<filterOptions, filterValue, lsSelected, quoteDisplay,
                           syncs, notification>>
       ELSE /\ phase' = "ready"
            /\ LET options == populateCategories(quotes)
                   selected == restoreFilter(lsSelected, options)
               IN /\ filterOptions' = options
                  /\ filterValue' = selected
                  /\ lsSelected' = selected
                  /\ quoteDisplay' \in RandomChoices(quotes, "all")
            /\ syncs' = 1
            /\ notification' = Note("Fetching quotes from server...")
  /\ UNCHANGED <<quotes, lsQuotes, adds, overlap, race>>

(* ------------------------------ addQuote ------------------------------- *)
(* an add that keeps the category as typed *)
newQuote_asTyped(text, category) == Quote(trim(text), trim(category))

(* lines 211-219 *)
newQuote(text, category) == Quote(trim(text), toLowerCase(trim(category)))

(* a validation that looks at the text only *)
Valid_textOnly(q) == Truthy(q.text)

(* line 214 *)
Valid(q) == Truthy(q.text) /\ Truthy(q.category)

AddRejected(text, category) ==
  /\ phase = "ready"
  /\ ~Valid(newQuote(text, category))
  /\ notification' = Note("Please fill in both the quote text and category.")
  /\ last' = Did("addRejected", text, category, <<>>, FALSE)
  /\ UNCHANGED <<phase, quotes, lsQuotes, lsSelected, filterOptions, filterValue,
                 quoteDisplay, syncs, adds, overlap, race>>

(* lines 211-222 up to `await fetch` inside postQuoteToServer; nothing is  *)
(* read or written between the two awaits of postQuoteToServer             *)
AddStart(a, text, category) ==
  /\ phase = "ready"
  /\ adds[a].pc = "idle"
  /\ Valid(newQuote(text, category))
  /\ adds' = [adds EXCEPT ![a] = [pc |-> "post", quote |-> newQuote(text, category),
                                  text |-> text, category |-> category]]
  /\ notification' = Note("Posting quote to server...")
  /\ last' = Did("other", "", "", <<>>, FALSE)
  /\ race' = IF syncs > 0 THEN RaceOnStart ELSE race
  /\ UNCHANGED <<phase, quotes, lsQuotes, lsSelected, filterOptions, filterValue,
                 quoteDisplay, syncs, overlap>>

(* a closing notification that ignores the push outcome *)
addedNote_alwaysPosted(postedSuccessfully) ==
  Note("Quote added locally and posted to server!")

(* lines 232-236: the notification that closes addQuote *)
addedNote(postedSuccessfully) ==
  IF postedSuccessfully
    THEN Note("Quote added locally and posted to server!")
    ELSE Note("Quote added locally, but failed to post to server.")

(* lines 225-236, run when postQuoteToServer has returned postedSuccessfully *)
AddFinish(a, postedSuccessfully) ==
  LET pushed == Append(quotes, adds[a].quote)
  IN /\ Len(pushed) <= MaxStore
     /\ quotes' = pushed
     /\ lsQuotes' = saveQuotes(pushed)
     /\ filterOptions' = populateCategories(pushed)
     /\ filterValue' = "all"
     /\ lsSelected' = "all"
     /\ quoteDisplay' = filterQuotes(pushed, "all")
     /\ notification' = addedNote(postedSuccessfully)
     /\ adds' = [adds EXCEPT ![a] = IdleAdd]
     /\ last' = Did("addDone", adds[a].text, adds[a].category, <<adds[a].quote>>,
                    postedSuccessfully)
     /\ overlap' = NoOverlap
     /\ race' = RaceOnFinish("add", {adds[a].quote})
     /\ UNCHANGED <<phase, syncs>>

(* the POST is rejected (network error), answers with a non-OK status, or *)
(* its res.json() rejects: the catch of postQuoteToServer returns false    *)
PostFailed(a) ==
  /\ adds[a].pc = "post"
  /\ AddFinish(a, FALSE)

(* the POST answers OK and its res.json() resolves *)
PostJson(a) ==
  /\ adds[a].pc = "post"
  /\ AddFinish(a, TRUE)

(* --------------------------- syncWithServer ---------------------------- *)
RECURSIVE merge_byPair(_, _)
(* a merge that looks for the same text and category *)
merge_byPair(localQuotes, serverQuotes) ==
  IF serverQuotes = <<>> THEN localQuotes
  ELSE LET serverQuote == Head(serverQuotes)
           exists == \E i \in 1..Len(localQuotes) : localQuotes[i] = serverQuote
       IN IF ~exists /\ Truthy(serverQuote.text) /\ Truthy(serverQuote.category)
            THEN merge_byPair(Append(localQuotes, serverQuote), Tail(serverQuotes))
            ELSE merge_byPair(localQuotes, Tail(serverQuotes))

RECURSIVE merge_noCheck(_, _)
(* a merge that pushes every well-formed candidate *)
merge_noCheck(localQuotes, serverQuotes) ==
  IF serverQuotes = <<>> THEN localQuotes
  ELSE LET serverQuote == Head(serverQuotes)
       IN IF Truthy(serverQuote.text) /\ Truthy(serverQuote.category)
            THEN merge_noCheck(Append(localQuotes, serverQuote), Tail(serverQuotes))
            ELSE merge_noCheck(localQuotes, Tail(serverQuotes))

(* a merge that looks for the text among the quotes read from storage only, *)
(* not among the candidates it has pushed                                   *)
merge_staleCheck(localQuotes, serverQuotes) ==
  localQuotes \o SelectSeq(serverQuotes,
     LAMBDA serverQuote :
        /\ \A i \in 1..Len(localQuotes) : localQuotes[i].text # serverQuote.text
        /\ Truthy(serverQuote.text) /\ Truthy(serverQuote.category))

RECURSIVE merge(_, _)
(* lines 140-148: the forEach over serverQuotes, pushing into localQuotes *)
merge(localQuotes, serverQuotes) ==
  IF serverQuotes = <<>> THEN localQuotes
  ELSE LET serverQuote == Head(serverQuotes)
           exists == \E i \in 1..Len(localQuotes) : localQuotes[i].text = serverQuote.text
       IN IF ~exists /\ Truthy(serverQuote.text) /\ Truthy(serverQuote.category)
            THEN merge(Append(localQuotes, serverQuote), Tail(serverQuotes))
            ELSE merge(localQuotes, Tail(serverQuotes))

(* one whole run of lines 137-152 on a given store, as a function *)
Sequential(qs, item, serverQuotes) ==
  LET localQuotes == merge(ParseOr(item, <<>>), serverQuotes)
  IN IF Len(localQuotes) > Len(ParseOr(item, <<>>))
       THEN [quotes |-> localQuotes, ls |-> saveQuotes(localQuotes)]
       ELSE [quotes |-> qs, ls |-> item]

FetchLimit == 5

(* a fetch that hands on the records mapped before the failure *)
fetchedQuotes_partial(body) ==
  LET n == IF Len(body.posts) < 5 THEN Len(body.posts) ELSE 5
      good == SelectSeq(SubSeq(body.posts, 1, n), LAMBDA post : post.kind # "null")
  IN [ok |-> body.kind = "list" /\ Len(good) = n,
      quotes |-> [i \in 1..Len(good) |-> Quote(good[i].title, "server")]]

(* lines 74-84: serverPosts.slice(0, 5).map(...); a TypeError when the body *)
(* is not a list or one of the first five records is null                  *)
fetchedQuotes(body) ==
  LET n == IF Len(body.posts) < FetchLimit THEN Len(body.posts) ELSE FetchLimit
      firstPosts == SubSeq(body.posts, 1, n)
  IN IF body.kind = "list" /\ \A i \in 1..n : firstPosts[i].kind # "null"
       THEN [ok |-> TRUE,
             quotes |-> [i \in 1..n |-> Quote(firstPosts[i].title, "server")]]
       ELSE [ok |-> FALSE, quotes |-> <<>>]

(* lines 83 and 87: the notification that closes fetchQuotesFromServer *)
fetchNote(ok) ==
  IF ok THEN Note("Fetched quotes from server successfully.")
        ELSE Note("Failed to fetch quotes from server")

(* lines 155 and 157: the notification that closes syncWithServer *)
syncNote(updated) ==
  IF updated THEN Note("Quotes synced from server. New quotes added.")
             ELSE Note("No new quotes found from server. Local quotes are up to date.")

(* showNotification replaces the text of the box: of the calls made in one *)
(* task the text of the last one is what the user is left with             *)
Shown(notes) == notes[Len(notes)]

(* timer tick (setInterval): lines 134-135 up to `await fetch` *)
SyncStart ==
  /\ phase = "ready"
  /\ InFlight < MaxRuns
  /\ syncs' = syncs + 1
  /\ notification' = Note("Fetching quotes from server...")
  /\ overlap' = OverlapOnStart
  /\ last' = IF last.op = "syncDone" THEN last ELSE Did("other", "", "", <<>>, FALSE)
  /\ race' = IF \E a \in AddSlots : adds[a].pc = "post" THEN RaceOnStart ELSE race
  /\ UNCHANGED <<phase, quotes, lsQuotes, lsSelected, filterOptions, filterValue,
                 quoteDisplay, adds>>

(* lines 137-158, run when fetchQuotesFromServer has returned serverQuotes *)
SyncFinish(outcome, ok, serverQuotes) ==
  LET localQuotes == merge(ParseOr(lsQuotes, <<>>), serverQuotes)
      updated == Len(localQuotes) > Len(ParseOr(lsQuotes, <<>>))
  IN /\ Len(localQuotes) <= MaxStore
     /\ syncs' = syncs - 1
     /\ last' = Did("syncDone", outcome, "", serverQuotes, ok)
     /\ overlap' = IF overlap.active
                      THEN [overlap EXCEPT
                              !.done = IF @ < 2 THEN @ + 1 ELSE @,
                              !.seqQuotes = Sequential(overlap.seqQuotes, overlap.seqLs, serverQuotes).quotes,
                              !.seqLs = Sequential(overlap.seqQuotes, overlap.seqLs, serverQuotes).ls]
                      ELSE overlap
     /\ notification' = Shown(<<fetchNote(ok), syncNote(updated)>>)
     /\ race' = RaceOnFinish("sync",
          {localQuotes[i] : i \in (Len(ParseOr(lsQuotes, <<>>)) + 1)..Len(localQuotes)})
     /\ IF updated
          THEN /\ quotes' = localQuotes
               /\ lsQuotes' = saveQuotes(localQuotes)
               /\ filterOptions' = populateCategories(localQuotes)
               /\ filterValue' = "all"
               /\ lsSelected' = "all"
               /\ quoteDisplay' = filterQuotes(localQuotes, "all")
          ELSE UNCHANGED <<quotes, lsQuotes, filterOptions, filterValue,
                           lsSelected, quoteDisplay>>
     /\ UNCHANGED <<phase, adds>>

(* fetch rejects (network error) or answers with a non-OK status: the     *)
(* catch of fetchQuotesFromServer returns []                               *)
FetchFailed(outcome) ==
  /\ syncs > 0
  /\ SyncFinish(outcome, FALSE, <<>>)

(* fetch answers OK and res.json() settles with the body the server sent *)
FetchJson(body) ==
  /\ syncs > 0
  /\ SyncFinish(body.kind, fetchedQuotes(body).ok, fetchedQuotes(body).quotes)

(* ------------------------- importFromJsonFile -------------------------- *)
RECURSIVE importLoop(_, _, _)
(* lines 317-324: the forEach over importedQuotes, pushing into `quotes`;  *)
(* threw = a TypeError left the loop early                                 *)
importLoop(qs, elems, addedCount) ==
  IF elems = <<>> THEN [quotes |-> qs, addedCount |-> addedCount, threw |-> FALSE]
  ELSE LET impQuote == Head(elems)
           exists == \E i \in 1..Len(qs) :
                        qs[i].text = impQuote.text /\ qs[i].category = impQuote.category
       IN IF impQuote.kind = "null"
            THEN [quotes |-> qs, addedCount |-> addedCount, threw |-> TRUE]
          ELSE IF ~exists /\ Truthy(impQuote.text) /\ Truthy(impQuote.category)
            THEN IF impQuote.category = NonString
                   THEN [quotes |-> qs, addedCount |-> addedCount, threw |-> TRUE]
                   ELSE importLoop(Append(qs, Quote(impQuote.text, toLowerCase(impQuote.category))),
                                   Tail(elems), addedCount + 1)
          ELSE importLoop(qs, Tail(elems), addedCount)

(* fileReader.onload, lines 310-340 *)
ImportLoad(file) ==
  /\ phase = "ready"
  /\ overlap' = NoOverlap
  /\ UNCHANGED <<phase, syncs, adds, race>>
  /\ IF file.kind # "array"
       THEN /\ notification' = Note("Import failed")
            /\ last' = Did("importFailed", "", "", <<>>, FALSE)
            /\ UNCHANGED <<quotes, lsQuotes, lsSelected, filterOptions, filterValue,
                           quoteDisplay>>
       ELSE LET r == importLoop(quotes, file.elems, 0)
            IN /\ Len(r.quotes) <= MaxStore
               /\ quotes' = r.quotes
               /\ IF r.threw
                    THEN /\ notification' = Note("Import failed")
                         /\ last' = Did("importFailed", "", "", file.elems, FALSE)
                         /\ UNCHANGED <<lsQuotes, lsSelected, filterOptions, filterValue,
                                        quoteDisplay>>
                  ELSE IF r.addedCount > 0
                    THEN /\ lsQuotes' = saveQuotes(r.quotes)
                         /\ filterOptions' = populateCategories(r.quotes)
                         /\ filterValue' = "all"
                         /\ lsSelected' = "all"
                         /\ quoteDisplay' = filterQuotes(r.quotes, "all")
                         /\ notification' = NoteN("Successfully imported new quotes!", r.addedCount)
                         /\ last' = Did("importDone", "", "", file.elems, TRUE)
                    ELSE /\ notification' = Note("No new quotes were imported")
                         /\ last' = Did("importDone", "", "", file.elems, TRUE)
                         /\ UNCHANGED <<lsQuotes, lsSelected, filterOptions, filterValue,
                                        quoteDisplay>>

(* ----------------------------- exportQuotes ---------------------------- *)
(* an export that writes the first quote only *)
exportQuotes_firstOnly(qs) ==
  [kind |-> "array",
   elems |-> [i \in 1..(IF Len(qs) > 0 THEN 1 ELSE 0) |-> Elem(qs[i].text, qs[i].category)]]

(* line 285: JSON.stringify(quotes, null, 2), given as the value a reader   *)
(* of the file parses from it: an array with one object per quote, in       *)
(* order; a property whose value is undefined is left out of the text and   *)
(* reads back as undefined                                                  *)
exportQuotes(qs) ==
  [kind |-> "array",
   elems |-> [i \in 1..Len(qs) |-> Elem(qs[i].text, qs[i].category)]]

(* click on exportBtn, lines 284-295: the file goes to the user *)
Export ==
  /\ phase = "ready"
  /\ notification' = Note("Quotes exported successfully!")
  /\ last' = Did("export", "", "", exportQuotes(quotes).elems, TRUE)
  /\ UNCHANGED <<phase, quotes, lsQuotes, lsSelected, filterOptions, filterValue,
                 quoteDisplay, syncs, adds, overlap, race>>

(* ------------------------------ the user ------------------------------- *)
(* the filter select changes and filterQuotes runs *)
ChangeFilter(selected) ==
  /\ phase = "ready"
  /\ selected \in Range(filterOptions)
  /\ filterValue' = selected
  /\ lsSelected' = selected
  /\ quoteDisplay' = filterQuotes(quotes, selected)
  /\ last' = Did("other", "", "", <<>>, FALSE)
  /\ UNCHANGED <<phase, quotes, lsQuotes, filterOptions, notification,
                 syncs, adds, overlap, race>>

Next ==
  \/ DOMContentLoaded
  \/ \E text \in TextInputs, category \in CategoryInputs : AddRejected(text, category)
  \/ \E a \in AddSlots, text \in TextInputs, category \in CategoryInputs :
        AddStart(a, text, category)
  \/ \E a \in AddSlots : PostFailed(a)
  \/ \E a \in AddSlots : PostJson(a)
  \/ SyncStart
  \/ \E outcome \in {"network error", "status"} : FetchFailed(outcome)
  \/ \E body \in Bodies : FetchJson(body)
  \/ \E file \in Files : ImportLoad(file)
  \/ Export
  \/ \E selected \in Range(filterOptions) : ChangeFilter(selected)

Spec == Init /\ [][Next]_vars

SpecRace == InitRace /\ [][Next]_vars

(* ======================= properties of the store ======================= *)
(* the step is the completion of a sync run / of an add *)
SyncDone == syncs' = syncs - 1
AddDone == \E a \in AddSlots : adds[a].pc = "post" /\ adds'[a].pc = "idle"

RECURSIVE IsSubseq(_, _)
(* a is b with some elements left out, order kept *)
IsSubseq(a, b) ==
  IF a = <<>> THEN TRUE
  ELSE IF b = <<>> THEN FALSE
  ELSE IF Head(a) = Head(b) THEN IsSubseq(Tail(a), Tail(b))
  ELSE IsSubseq(a, Tail(b))

Count(qs, q) == Cardinality({i \in 1..Len(qs) : qs[i] = q})

Stored == ParseOr(lsQuotes, <<>>)

(* the quote of the add that has just finished *)
Added == last.cands[1]

(* C1: no operation removes or reorders a quote: the store before a step is *)
(* a subsequence of the store after it.                                     *)
C1_OnlyGrows == [][IsSubseq(quotes, quotes')]_vars

(* C2: whenever a callback has changed the in-memory store, the value       *)
(* persisted under "quotes" equals the in-memory sequence when it returns.  *)
C2_PersistedEqualsMemory == [][quotes' # quotes => lsQuotes' = ArrayItem(quotes')]_vars

RECURSIVE MergeByPair(_, _)
(* the merge as C3 words it: skip exactly on an equal (text, category) pair *)
MergeByPair(store, candidates) ==
  IF candidates = <<>> THEN store
  ELSE IF \E i \in 1..Len(store) : store[i] = Head(candidates)
         THEN MergeByPair(store, Tail(candidates))
         ELSE MergeByPair(Append(store, Head(candidates)), Tail(candidates))

(* C3 as claimed: a sync run (on a store that equals its persisted copy,   *)
(* with candidates that all carry a text) skips a candidate exactly when    *)
(* the store holds the same (text, category) pair and appends it otherwise. *)
C3_SkipsOnEqualPair ==
  [][(/\ SyncDone
      /\ lsQuotes = ArrayItem(quotes)
      /\ \A i \in 1..Len(last'.cands) : Truthy(last'.cands[i].text))
       => quotes' = MergeByPair(quotes, last'.cands)]_vars

(* the candidates a run keeps: text present, not the text of a quote read   *)
(* back from the persisted copy, not the text of an earlier candidate       *)
KeptAt(localQuotes, candidates) ==
  {i \in 1..Len(candidates) :
     /\ Truthy(candidates[i].text)
     /\ \A k \in 1..Len(localQuotes) : localQuotes[k].text # candidates[i].text
     /\ \A j \in 1..(i - 1) : candidates[j].text # candidates[i].text}

RECURSIVE Pick(_, _, _)
Pick(candidates, at, i) ==
  IF i > Len(candidates) THEN <<>>
  ELSE IF i \in at THEN <<candidates[i]>> \o Pick(candidates, at, i + 1)
  ELSE Pick(candidates, at, i + 1)

(* C3 (amended): a sync run skips a candidate exactly when the list read    *)
(* back from the persisted copy, or an earlier candidate of the run, holds  *)
(* the same text (whatever the category), or the candidate has no text; it  *)
(* appends the others in order, and store and persisted copy become that    *)
(* list; when nothing is appended both are left as they were.               *)
C3_SkipsOnEqualText ==
  [][SyncDone =>
       LET kept == KeptAt(Stored, last'.cands)
           merged == Stored \o Pick(last'.cands, kept, 1)
       IN IF kept = {}
            THEN quotes' = quotes /\ lsQuotes' = lsQuotes
            ELSE quotes' = merged /\ lsQuotes' = ArrayItem(merged)]_vars

(* a run has just skipped a candidate whose text a quote of another         *)
(* category holds                                                           *)
C3_Witness ==
  /\ last.op = "syncDone"
  /\ \E i \in 1..Len(last.cands) :
       /\ \E k \in 1..Len(quotes) :
            quotes[k].text = last.cands[i].text /\ quotes[k].category # last.cands[i].category
       /\ last.cands[i] \notin Range(quotes)

(* C4: a sync run that follows a run with the same candidate list (whether  *)
(* it started after that run or overlapped it) leaves the store and the     *)
(* persisted copy as the first run left them.                               *)
C4_MergeIdempotent ==
  [][(SyncDone /\ last'.again) => (quotes' = quotes /\ lsQuotes' = lsQuotes)]_vars

(* the second of two runs with the list [Q, Q] has finished, Q was merged *)
C4_Witness ==
  /\ last.again
  /\ syncs = 0
  /\ Len(last.cands) = 2
  /\ last.cands[1] = last.cands[2]
  /\ Count(quotes, last.cands[1]) = 1
  /\ Count(Stored, last.cands[1]) = 1

(* C5 as claimed: when two overlapping sync runs have both finished (the    *)
(* later one with a fetched list), the store holds no quote twice and       *)
(* equals the one-after-the-other result.                                   *)
C5_NoQuoteTwice ==
  (overlap.active /\ overlap.done = 2 /\ InFlight = 0 /\ last.op = "syncDone" /\ last.ok)
    => (/\ ~Twice(quotes)
        /\ quotes = overlap.seqQuotes
        /\ lsQuotes = overlap.seqLs)

(* C5 (amended): while sync runs overlap, store and persisted copy equal    *)
(* what the finished runs give one after the other, in the order their      *)
(* fetches completed; the runs add no duplicate: if no quote was held twice *)
(* before them, none is held twice after them.                              *)
C5_Serializable ==
  overlap.active
    => (/\ quotes = overlap.seqQuotes
        /\ lsQuotes = overlap.seqLs
        /\ (~overlap.hadTwice => (~Twice(quotes) /\ ~Twice(Stored))))

(* two overlapping runs have finished and each of them appended a quote *)
C5_Witness ==
  /\ overlap.active
  /\ overlap.done = 2
  /\ InFlight = 0
  /\ Len(quotes) >= overlap.baseLen + 2
  /\ Quote("Test quote", "server") \in Range(quotes)
  /\ Quote("qui est esse", "server") \in Range(quotes)

(* C6: an accepted add appends {trimmed text, lower-cased category} at the  *)
(* end of the store, keeps every earlier quote, and persists the result.    *)
C6_AddAppends ==
  [][AddDone =>
       /\ quotes' = Append(quotes, Quote(trim(last'.text), toLowerCase(trim(last'.category))))
       /\ lsQuotes' = ArrayItem(quotes')]_vars

(* an add of " Test quote " / "Test" has finished on a store that already   *)
(* held {Test quote, test}                                                  *)
C6_Witness ==
  /\ last.op = "addDone"
  /\ last.text = " Test quote "
  /\ last.category = "Test"
  /\ Len(quotes) >= 2
  /\ quotes[Len(quotes)] = Quote("Test quote", "test")
  /\ quotes[Len(quotes) - 1] = Quote("Test quote", "test")
  /\ lsQuotes = ArrayItem(quotes)

(* C7: an add whose text or category is empty after trimming shows the      *)
(* validation message and changes neither the store, the persisted copy,    *)
(* the category index nor the requests in flight; no push is ever in flight *)
(* for such an input.                                                       *)
C7_RejectedAddChangesNothing ==
  /\ [][last'.op = "addRejected" =>
          /\ notification'.msg = "Please fill in both the quote text and category."
          /\ quotes' = quotes
          /\ lsQuotes' = lsQuotes
          /\ filterOptions' = filterOptions
          /\ adds' = adds]_vars
  /\ [](\A a \in AddSlots :
          adds[a].pc # "idle" => (trim(adds[a].text) # "" /\ trim(adds[a].category) # ""))

(* an add with a text but a blank category has just been rejected *)
C7_Witness ==
  /\ last.op = "addRejected"
  /\ last.text = " Test quote "
  /\ last.category = " "
  /\ notification.msg = "Please fill in both the quote text and category."
  /\ \A a \in AddSlots : adds[a].pc = "idle"

(* C8 as claimed: after an add the view of the quote's category holds the   *)
(* quote exactly once, and the view for "all" holds it.                     *)
C8_ViewHoldsQuoteOnce ==
  last.op = "addDone" =>
    /\ Count(byCategory(quotes, Added.category), Added) = 1
    /\ Added \in Range(byCategory(quotes, "all"))

(* C8 (amended): after an add the view of the quote's category holds the    *)
(* quote once more than before the add (exactly once when no equal quote    *)
(* was in the store), and so does the view for "all".                       *)
C8_ViewHoldsQuoteOnceMore ==
  [][AddDone =>
       LET q == Quote(trim(last'.text), toLowerCase(trim(last'.category)))
       IN /\ Count(byCategory(quotes', q.category), q) = Count(quotes, q) + 1
          /\ Count(byCategory(quotes', "all"), q) = Count(quotes, q) + 1]_vars

(* an add has finished and the view of its category holds the quote twice *)
C8_Witness ==
  /\ last.op = "addDone"
  /\ Count(byCategory(quotes, Added.category), Added) = 2
  /\ Count(byCategory(quotes, "all"), Added) = 2

(* C9: when the push of an accepted add settles, the quote is appended to   *)
(* the store and persisted whether the push succeeded or failed, and the    *)
(* notification then names the push outcome.                                *)
C9_AddSurvivesPush ==
  [][\A a \in AddSlots :
       (adds[a].pc # "idle" /\ adds'[a].pc = "idle") =>
          /\ adds[a].quote \in Range(quotes')
          /\ lsQuotes' = ArrayItem(quotes')
          /\ Count(quotes', adds[a].quote) = Count(quotes, adds[a].quote) + 1
          /\ notification'.msg =
               IF last'.ok THEN "Quote added locally and posted to server!"
                           ELSE "Quote added locally, but failed to post to server."]_vars

(* an add whose push failed has finished: the quote is stored all the same *)
C9_Witness ==
  /\ last.op = "addDone"
  /\ ~last.ok
  /\ Added \in Range(quotes)
  /\ Added \in Range(Stored)
  /\ notification.msg = "Quote added locally, but failed to post to server."

(* C10: a sync run whose fetch failed leaves the store and the persisted    *)
(* "quotes" value as they were.                                             *)
C10_FailedFetchKeepsStore ==
  [][(SyncDone /\ ~last'.ok) =>
       (quotes' = quotes /\ lsQuotes' = lsQuotes)]_vars

(* a run whose body was no list has finished on a non-empty store *)
C10_Witness ==
  /\ last.op = "syncDone"
  /\ ~last.ok
  /\ last.text = "object"
  /\ syncs = 0
  /\ Len(quotes) > 0

(* C11: when the fetch of a sync run has failed, the notification left     *)
(* showing once the run has finished is the failure message.               *)
C11_FailedFetchIsReported ==
  [][(SyncDone /\ ~last'.ok) => notification' = fetchNote(FALSE)]_vars

(* C12: startup fails soft: whatever is persisted under "quotes", the       *)
(* script runs to its end (with the seed as the store when the value is no  *)
(* array) and the DOMContentLoaded handler runs to its end, with the        *)
(* category index built.                                                    *)
C12_StartupFailsSoft ==
  /\ phase \notin {"crashed", "broken"}
  /\ (phase = "loaded" /\ lsQuotes.kind # "array") => (HoldsList /\ quotes = SeedQuotes)
  /\ phase = "ready" => (Len(filterOptions) > 0 /\ filterOptions[1] = "all")

(* an element of an import file that is a quote: an object whose text and   *)
(* category are non-empty strings                                           *)
IsValidElem(e) ==
  /\ e.kind = "object"
  /\ e.text \notin {Undefined, "", NonString}
  /\ e.category \notin {Undefined, "", NonString}

(* C13: after the import of a file whose top-level value is an array, every *)
(* valid element of the file is in the store and in the persisted copy,     *)
(* whatever invalid elements the file holds before or after it.             *)
C13_InvalidElementSkipped ==
  last.op \in {"importDone", "importFailed"} =>
    \A i \in 1..Len(last.cands) :
       IsValidElem(last.cands[i]) =>
         LET q == Quote(last.cands[i].text, toLowerCase(last.cands[i].category))
         IN q \in Range(quotes) /\ q \in Range(Stored)

RECURSIVE ImportByKey(_, _)
(* the import as C14 words it: a valid element is appended unless the       *)
(* store, or the part of the batch appended so far, holds its text with     *)
(* its lower-cased category                                                 *)
ImportByKey(store, elems) ==
  IF elems = <<>> THEN store
  ELSE LET e == Head(elems)
           q == Quote(e.text, toLowerCase(e.category))
       IN IF IsValidElem(e) /\ q \notin Range(store)
            THEN ImportByKey(Append(store, q), Tail(elems))
            ELSE ImportByKey(store, Tail(elems))

(* C14: an import that ran to its end leaves the store merged by the key    *)
(* (text, lower-cased category) and reports the number of quotes appended;  *)
(* a file whose valid elements are all in the store adds none.              *)
C14_ImportDedupByKey ==
  [][last'.op = "importDone" =>
       /\ quotes' = ImportByKey(quotes, last'.cands)
       /\ notification'.n = Len(quotes') - Len(quotes)]_vars

(* the store a page with an empty store holds after importing a file *)
ImportedIntoEmpty(elems) == importLoop(<<>>, elems, 0)

(* C15: the file an export has produced, imported into an empty store,      *)
(* gives a store with the same set of (text, category) quotes as the store  *)
(* that was exported, and the import runs to its end.                       *)
C15_RoundTrip ==
  last.op = "export" =>
    /\ ~ImportedIntoEmpty(last.cands).threw
    /\ Range(ImportedIntoEmpty(last.cands).quotes) = Range(quotes)

(* an export of a store that holds an added or imported quote twice and a   *)
(* synced quote: the round trip gives fewer quotes, the same set            *)
C15_Witness ==
  /\ last.op = "export"
  /\ Twice(quotes)
  /\ \E i \in 1..Len(quotes) : quotes[i].category = "server"
  /\ \E i \in 1..Len(quotes) : quotes[i].category = "test"
  /\ Len(ImportedIntoEmpty(last.cands).quotes) < Len(quotes)
  /\ Range(ImportedIntoEmpty(last.cands).quotes) = Range(quotes)

(* the categories of the quotes of the store *)
Categories(qs) == {qs[i].category : i \in 1..Len(qs)}

(* the page has just started, and the value persisted under                *)
(* "selectedCategory" (kept in last.text) named no category of the index   *)
StartedWithStaleFilter ==
  /\ phase = "ready"
  /\ last.op = "load"
  /\ last.text \notin Range(filterOptions)

(* C16 as claimed: after a start with a persisted selection that names no   *)
(* category, the selection and its persisted value are "all" and the        *)
(* display holds the list of the full store; and the selection is always    *)
(* "all" or the category of a quote of the store.                           *)
C16_FallsBackToAllList ==
  /\ StartedWithStaleFilter =>
       /\ filterValue = "all"
       /\ lsSelected = "all"
       /\ quoteDisplay = filterQuotes(quotes, "all")
  /\ phase = "ready" => filterValue \in {"all"} \cup Categories(quotes)

(* C16 (amended): after such a start the selection and its persisted value  *)
(* are "all", and the display holds one random quote of the full store (or  *)
(* the no-quotes message), not the list; the selection is always "all" or   *)
(* the category of a quote of the store, and its persisted value equals it. *)
C16_FallsBackToAll ==
  /\ StartedWithStaleFilter =>
       /\ filterValue = "all"
       /\ lsSelected = "all"
       /\ quoteDisplay \in RandomChoices(quotes, "all")
       /\ quoteDisplay # filterQuotes(quotes, "all")
  /\ phase = "ready" =>
       /\ filterValue \in {"all"} \cup Categories(quotes)
       /\ lsSelected = filterValue

(* the page has started with "gone" persisted as the selection, on a store  *)
(* of two quotes                                                            *)
C16_Witness ==
  /\ StartedWithStaleFilter
  /\ last.text = "gone"
  /\ Len(quotes) = 2
  /\ filterValue = "all"
  /\ lsSelected = "all"

(* C17: a sync run whose fetch succeeded takes at most the first five       *)
(* records as candidates {title, "server"}; after it every candidate whose  *)
(* text was not in the persisted list is in the store and in the persisted  *)
(* copy, nothing else was added, the category index then holds "server",    *)
(* and the success notification carries the number of quotes added.         *)
C17_SyncAddsAndCounts ==
  [][(SyncDone /\ last'.ok) =>
       LET new == KeptAt(Stored, last'.cands)
       IN /\ Len(last'.cands) <= FetchLimit
          /\ \A i \in 1..Len(last'.cands) : last'.cands[i].category = "server"
          /\ \A i \in new : /\ last'.cands[i] \in Range(quotes')
                             /\ last'.cands[i] \in Range(ParseOr(lsQuotes', <<>>))
          /\ Range(quotes') \subseteq Range(quotes) \cup Range(Stored) \cup Range(last'.cands)
          /\ new # {} =>
                /\ "server" \in Range(filterOptions')
                /\ notification'.msg = "Quotes synced from server. New quotes added."
                /\ notification'.n = Cardinality(new)]_vars

(* C18: an add, an import or a sync run that has put a quote into the store *)
(* leaves the selected category and its persisted value as they were, and   *)
(* the display then holds the list of the store's quotes of that category.  *)
C18_FilterReapplied ==
  [][((AddDone \/ SyncDone \/ last'.op = "importDone") /\ quotes' # quotes) =>
       /\ filterValue' = filterValue
       /\ lsSelected' = filterValue
       /\ quoteDisplay' = filterQuotes(quotes', filterValue)]_vars

(* the step closes the window of an add raced by a sync run, and what the   *)
(* operation that finishes in it puts into the store                        *)
RaceEnds ==
  /\ race.mode = "open"
  /\ \/ race.first = "add" /\ SyncDone
     \/ race.first = "sync" /\ AddDone

GainedNow ==
  IF SyncDone
    THEN {last'.cands[i] : i \in KeptAt(Stored, last'.cands)}
    ELSE {adds[a].quote : a \in {b \in AddSlots : adds[b].pc = "post" /\ adds'[b].pc = "idle"}}

(* C19: when an add and a sync run that were suspended together have both   *)
(* finished, the store and the persisted copy hold the added quote, every   *)
(* quote the sync run merged, and every quote the store held when the two   *)
(* were first suspended together.                                           *)
C19_NoLostUpdate ==
  [][RaceEnds =>
       /\ race.owed \cup GainedNow \subseteq Range(quotes')
       /\ race.owed \cup GainedNow \subseteq Range(ParseOr(lsQuotes', <<>>))]_vars

====
